---- MODULE Spec2Model ----
(***************************************************************************)
(* Model of sfz-router.py: the startup sequence of main(), the debounce    *)
(* loop of main() and its teardown, with load_last_program,                *)
(* save_last_program, start_sfizz and force_initial_program.               *)
(*                                                                         *)
(* Time is an integer number of milliseconds of time.monotonic().  The     *)
(* text of LAST_PROG_FILE is a sequence of one-character strings.          *)
(***************************************************************************)
EXTENDS Integers, Sequences, FiniteSets, TLC

(* ---- bounds of the model ---------------------------------------------- *)

\* Durations of one loop iteration are sampled in multiples of Tick ms.
Tick == 250
\* Longest sampled iteration, in Ticks (time.sleep may oversleep).
MaxSleepTicks == 2
\* The loop stops advancing the clock beyond MaxClock ms.
MaxClock == 2500
\* Number of qualifying Program Changes the controller delivers.
MaxEvents == 3
\* Number of failing writes to the engine's stdin.
MaxSendFailures == 2

(* ---- USER CONFIG of the program --------------------------------------- *)

COMMON_CHANNEL == 1

\* The SFZ_MAP dict of the module: its items and the order of its keys.
VARIABLE config

\* The keys of the SFZ_MAP literal, in order.
ShippedOrder == <<10, 11, 12, 13, 14, 15, 16>>

\* The SFZ_MAP literal.
ShippedMap ==
    [p \in 10..16 |->
        CASE p = 10 -> "/root/sfz/Wurlitzer/Wurlitzer.sfz"
          [] p = 11 -> "/root/sfz/Clavinet/Clavinet.sfz"
          [] p = 12 -> "/root/sfz/K18-Upright-Piano/K18-Upright-Piano.sfz"
          [] p = 13 -> "/root/sfz/SalamanderGrandPianoV6/sfz_daw/Accurate-SalamanderGrandPiano_flat.Recommended.sfz"
          [] p = 14 -> "/root/sfz/GregSullivan.E-Pianos-master/PianetT/PianetT.sfz"
          [] p = 15 -> "/root/sfz/GregSullivan.E-Pianos-master/EP200/EP200.sfz"
          [] p = 16 -> "/root/sfz/jRhodes3d/jlearman.jRhodes3d-master/jRhodes3d-st/_jRhodes3d-st-flac.sfz"]

ShippedConfig == [map |-> ShippedMap, order |-> ShippedOrder]

\* SFZ_MAP edited to have no entry.
EmptyConfig == [map |-> <<>>, order |-> <<>>]

\* SFZ_MAP edited to have no entry for program 10.
NoDefaultConfig ==
    [map |-> [p \in {11, 12} |-> ShippedMap[p]], order |-> <<11, 12>>]

\* The edits of the USER CONFIG section that are tried.
ConfigSamples == {ShippedConfig, EmptyConfig, NoDefaultConfig}

SFZ_MAP == config.map

SFZ_ORDER == config.order

\* DEBOUNCE_SECONDS = 0.50, in milliseconds.
DEBOUNCE_SECONDS == 500

\* default_prog = 10 of load_last_program.
DEFAULT_PROG == 10

\* time.sleep(0.005) at the end of an iteration, in milliseconds.
LOOP_SLEEP == 5

\* time.sleep(1.0) of jack_autoconnect, in milliseconds.
JACK_SLEEP == 1000

(* ---- text <-> int, as int(f.read().strip()) and str(program) ---------- *)

Digits == <<"0", "1", "2", "3", "4", "5", "6", "7", "8", "9">>

IsDigit(c) == \E i \in 1..10 : Digits[i] = c

DigitVal(c) == (CHOOSE i \in 1..10 : Digits[i] = c) - 1

IsSpace(c) == c \in {" ", "\n", "\t"}

RECURSIVE LStrip(_)
LStrip(s) ==
    IF s # <<>> /\ IsSpace(Head(s)) THEN LStrip(Tail(s)) ELSE s

RECURSIVE RStrip(_)
RStrip(s) ==
    IF s # <<>> /\ IsSpace(s[Len(s)]) THEN RStrip(SubSeq(s, 1, Len(s) - 1)) ELSE s

\* str.strip()
Strip(s) == RStrip(LStrip(s))

\* The digits part of an int() literal: digits, single underscores only
\* between digits.
RECURSIVE IsDigitPart(_)
IsDigitPart(s) ==
    /\ s # <<>>
    /\ IsDigit(Head(s))
    /\ \/ Len(s) = 1
       \/ IsDigitPart(Tail(s))
       \/ Len(s) >= 3 /\ s[2] = "_" /\ IsDigitPart(SubSeq(s, 3, Len(s)))

RECURSIVE DigitPartVal(_, _)
DigitPartVal(s, acc) ==
    IF s = <<>> THEN acc
    ELSE IF Head(s) = "_" THEN DigitPartVal(Tail(s), acc)
    ELSE DigitPartVal(Tail(s), 10 * acc + DigitVal(Head(s)))

\* int(text): [ok |-> FALSE] stands for ValueError.
ParseInt(text) ==
    LET s    == Strip(text)
        sign == s # <<>> /\ Head(s) \in {"+", "-"}
        body == IF sign THEN Tail(s) ELSE s
    IN  IF IsDigitPart(body)
        THEN [ok |-> TRUE,
              val |-> IF sign /\ Head(s) = "-"
                      THEN 0 - DigitPartVal(body, 0)
                      ELSE DigitPartVal(body, 0)]
        ELSE [ok |-> FALSE, val |-> 0]

\* str(n) for n >= 0
RECURSIVE Str(_)
Str(n) ==
    IF n < 10 THEN <<Digits[n + 1]>>
    ELSE Str(n \div 10) \o <<Digits[(n % 10) + 1]>>

(* ---- LAST_PROG_FILE --------------------------------------------------- *)

NoFile == [kind |-> "absent", text |-> <<>>]

\* The path exists but open() or read() raises.
Unreadable == [kind |-> "unreadable", text |-> <<>>]

TextFile(t) == [kind |-> "text", text |-> t]

\* States LAST_PROG_FILE is found in when the process starts.
FileSamples ==
    { NoFile, Unreadable,
      TextFile(<<>>),
      TextFile(<<"1", "1">>),
      TextFile(<<" ", "1", "2", "\n">>),
      TextFile(<<"9">>),
      TextFile(<<"1", "2", "8">>),
      TextFile(<<"-", "1", "1">>),
      TextFile(<<"1", "_", "6">>),
      TextFile(<<"1", "1", ".", "0">>),
      TextFile(<<"P", "0", "1", "1">>) }

\* The states of LAST_PROG_FILE the runs of the loop start from.
StartFiles == { NoFile, TextFile(<<"1", "1">>) }

\* load_last_program without the membership test.
load_last_program_any_value(f) ==
    IF f.kind = "absent" THEN DEFAULT_PROG
    ELSE IF f.kind = "unreadable" THEN DEFAULT_PROG
    ELSE LET r == ParseInt(f.text)
         IN  IF ~r.ok THEN DEFAULT_PROG ELSE r.val

load_last_program(f) ==
    IF f.kind = "absent" THEN DEFAULT_PROG
    ELSE IF f.kind = "unreadable" THEN DEFAULT_PROG
    ELSE LET r == ParseInt(f.text)
         IN  IF ~r.ok THEN DEFAULT_PROG
             ELSE IF r.val \in DOMAIN SFZ_MAP THEN r.val
             ELSE DEFAULT_PROG

\* Outcomes of save_last_program: the write succeeds; open() raises and the
\* file is left as it was; open() truncated the file and write() raises.
SaveOutcomes == {"ok", "open_failed", "write_failed"}

\* save_last_program has no return statement and its except clause
\* swallows the exception: the call evaluates to None.
SaveReturn(outcome) == 0 - 1

save_last_program(f, program, outcome) ==
    CASE outcome = "ok"           -> TextFile(Str(program))
      [] outcome = "open_failed"  -> f
      [] outcome = "write_failed" -> TextFile(<<>>)

(* ---- MIDI messages ---------------------------------------------------- *)

\* status & 0xF0 and status & 0x0F
StatusType(status) == (status \div 16) * 16

StatusChannel(status) == status % 16

\* common_midi_channel = COMMON_CHANNEL - 1
common_midi_channel == COMMON_CHANNEL - 1

\* The test without the channel.
IsQualifying_any_channel(m) == StatusType(m[1]) = 192

\* if status_type == 0xC0 and channel == common_midi_channel
IsQualifying(m) ==
    StatusType(m[1]) = 192 /\ StatusChannel(m[1]) = common_midi_channel

\* msg = [status, program] of force_initial_program; 0xC0 | ch = 192 + ch
ForceMessage(program) == <<192 + common_midi_channel, program>>

\* Program numbers the controller sends: 9 is not a key of SFZ_MAP.
ProgramSamples == {9, 10, 11, 12}

\* Other messages the controller sends: Program Change on channel 2,
\* Note On on channel 1, Control Change on channel 1.
NonQualifyingSamples == {<<193, 12>>, <<144, 11>>, <<176, 10>>}

MessageSamples ==
    {<<192, d>> : d \in ProgramSamples} \cup NonQualifyingSamples

(* ---- sfizz ------------------------------------------------------------ *)

\* Always the first entry of SFZ_MAP.
default_sfz_first_entry(default_program) == SFZ_MAP[SFZ_ORDER[1]]

\* next() on the iterator of an empty dict raises StopIteration.
StopIteration == "<StopIteration>"

\* start_sfizz without the fallback to the first entry.
default_sfz_no_fallback(default_program) ==
    IF default_program \in DOMAIN SFZ_MAP /\ SFZ_MAP[default_program] # ""
    THEN SFZ_MAP[default_program]
    ELSE "<StopIteration>"

\* SFZ_MAP.get(default_program) or next(iter(SFZ_MAP.values()))
default_sfz(default_program) ==
    IF default_program \in DOMAIN SFZ_MAP /\ SFZ_MAP[default_program] # ""
    THEN SFZ_MAP[default_program]
    ELSE IF SFZ_ORDER = <<>> THEN StopIteration
    ELSE SFZ_MAP[SFZ_ORDER[1]]

\* cmd = f"load_instrument {sfz_path}\n"
LoadCommand(sfz_path) == <<"load_instrument ", sfz_path, "\n">>

(* ---- state ------------------------------------------------------------ *)

VARIABLES
    pc,                      \* position in main()
    clock,                   \* time.monotonic(), ms
    file,                    \* LAST_PROG_FILE
    midiin_open,             \* midiin port is open
    midiout_open,            \* midiout port is open
    midiout_msgs,            \* messages sent to the controller
    sfizz,                   \* "none", "running", "exited", "terminated", "killed"
    sfizz_arg,               \* the SFZ path sfizz was started with
    default_prog,            \* main(): default_prog
    current_program,         \* main(): current_program
    last_requested_program,  \* main(): last_requested_program
    last_request_time,       \* main(): last_request_time
    now,                     \* main(): now
    msg,                     \* main(): msg, <<>> for None; cleared once handled
    engine_stdin,            \* commands written and flushed to sfizz.stdin
    events,                  \* history: qualifying events consumed
    attempts,                \* history: commit attempts
    last_saved,              \* history: program of the last successful save
    save_result,             \* what the last call of save_last_program returned
    send_failures            \* history: number of failed writes

vars == <<pc, clock, file, midiin_open, midiout_open, midiout_msgs, sfizz,
          sfizz_arg, default_prog, current_program, last_requested_program,
          last_request_time, now, msg, engine_stdin, events, attempts,
          last_saved, save_result, send_failures, config>>

\* None of Python
None == -1

StartupPcs == {"open_ports", "load_last", "force", "start_sfizz", "jack", "init"}

LoopPcs == {"poll", "check", "save", "send", "sleep"}

Init ==
    /\ pc = "open_ports"
    /\ clock = 0
    /\ file \in StartFiles
    /\ midiin_open = FALSE
    /\ midiout_open = FALSE
    /\ midiout_msgs = <<>>
    /\ sfizz = "none"
    /\ sfizz_arg = ""
    /\ default_prog = None
    /\ current_program = None
    /\ last_requested_program = None
    /\ last_request_time = None
    /\ now = None
    /\ msg = <<>>
    /\ engine_stdin = <<>>
    /\ events = <<>>
    /\ attempts = <<>>
    /\ last_saved = None
    /\ save_result = None
    /\ send_failures = 0
    /\ config = ShippedConfig

(* ---- startup of main() ------------------------------------------------ *)

\* open_sl_ctrl_in(), open_sl_ctrl_out(); sys.exit(1) when either raises.
OpenPorts ==
    /\ pc = "open_ports"
    /\ \E in_ok \in BOOLEAN, out_ok \in BOOLEAN :
         /\ midiin_open' = in_ok
         /\ midiout_open' = (in_ok /\ out_ok)
         /\ pc' = IF in_ok /\ out_ok THEN "load_last" ELSE "exit1"
    /\ UNCHANGED <<clock, file, midiout_msgs, sfizz, sfizz_arg, default_prog,
                   current_program, last_requested_program, last_request_time,
                   now, engine_stdin, events, attempts, send_failures, msg, last_saved, save_result, config>>

\* default_prog = load_last_program()
LoadLast ==
    /\ pc = "load_last"
    /\ default_prog' = load_last_program(file)
    /\ pc' = "force"
    /\ UNCHANGED <<clock, file, midiin_open, midiout_open, midiout_msgs, sfizz,
                   sfizz_arg, current_program, last_requested_program,
                   last_request_time, now, engine_stdin, events, attempts,
                   send_failures, msg, last_saved, save_result, config>>

\* force_initial_program(midiout, default_prog)
ForceInitial ==
    /\ pc = "force"
    /\ midiout_msgs' = Append(midiout_msgs, ForceMessage(default_prog))
    /\ pc' = "start_sfizz"
    /\ UNCHANGED <<clock, file, midiin_open, midiout_open, sfizz, sfizz_arg,
                   default_prog, current_program, last_requested_program,
                   last_request_time, now, engine_stdin, events, attempts,
                   send_failures, msg, last_saved, save_result, config>>

\* sfizz = start_sfizz(default_prog); nothing catches a StopIteration
\* raised by start_sfizz.
StartSfizz ==
    /\ pc = "start_sfizz"
    /\ IF default_sfz(default_prog) = StopIteration
       THEN /\ pc' = "crashed"
            /\ UNCHANGED <<sfizz, sfizz_arg>>
       ELSE /\ sfizz' = "running"
            /\ sfizz_arg' = default_sfz(default_prog)
            /\ pc' = "jack"
    /\ UNCHANGED <<clock, file, midiin_open, midiout_open, midiout_msgs,
                   default_prog, current_program, last_requested_program,
                   last_request_time, now, engine_stdin, events, attempts,
                   send_failures, msg, last_saved, save_result, config>>

\* jack_autoconnect(): time.sleep(1.0), then the jack_connect calls.
JackAutoconnect ==
    /\ pc = "jack"
    /\ clock' = clock + JACK_SLEEP
    /\ pc' = "init"
    /\ UNCHANGED <<file, midiin_open, midiout_open, midiout_msgs, sfizz,
                   sfizz_arg, default_prog, current_program,
                   last_requested_program, last_request_time, now,
                   engine_stdin, events, attempts, send_failures, msg, last_saved, save_result, config>>

\* State for debounce
InitDebounce ==
    /\ pc = "init"
    /\ current_program' = default_prog
    /\ last_requested_program' = default_prog
    /\ last_request_time' = clock
    /\ pc' = "poll"
    /\ UNCHANGED <<clock, file, midiin_open, midiout_open, midiout_msgs, sfizz,
                   sfizz_arg, default_prog, now, engine_stdin, events,
                   attempts, send_failures, msg, last_saved, save_result, config>>

(* ---- the debounce loop of main() --------------------------------------- *)

\* The timestamp is never refreshed.
after_message_keeps_time(m, lrp, lrt, t) ==
    IF m # <<>> /\ IsQualifying(m)
    THEN [program |-> m[2], time |-> lrt]
    ELSE [program |-> lrp, time |-> lrt]

\* The timestamp is not refreshed by a repeat of the pending program.
after_message_repeat_keeps_time(m, lrp, lrt, t) ==
    IF m # <<>> /\ IsQualifying(m)
    THEN [program |-> m[2], time |-> IF m[2] = lrp THEN lrt ELSE t]
    ELSE [program |-> lrp, time |-> lrt]

\* Update debounce state only: last_requested_program and
\* last_request_time after one poll, m = <<>> when get_message()
\* returned None.
after_message(m, lrp, lrt, t) ==
    IF m # <<>> /\ IsQualifying(m)
    THEN [program |-> m[2], time |-> t]
    ELSE [program |-> lrp, time |-> lrt]

\* The check without the membership test.
debounce_due_any_program(lrp, cur, t, lrt) ==
    /\ lrp # cur
    /\ (t - lrt) >= DEBOUNCE_SECONDS

\* The check with > in place of >=.
debounce_due_strict(lrp, cur, t, lrt) ==
    /\ lrp \in DOMAIN SFZ_MAP
    /\ lrp # cur
    /\ (t - lrt) > DEBOUNCE_SECONDS

\* The check without the comparison with current_program.
debounce_due_no_compare(lrp, cur, t, lrt) ==
    /\ lrp \in DOMAIN SFZ_MAP
    /\ (t - lrt) >= DEBOUNCE_SECONDS

\* The check with twice the window.
debounce_due_double_window(lrp, cur, t, lrt) ==
    /\ lrp \in DOMAIN SFZ_MAP
    /\ lrp # cur
    /\ (t - lrt) >= 2 * DEBOUNCE_SECONDS

\* The debounce check.
debounce_due(lrp, cur, t, lrt) ==
    /\ lrp \in DOMAIN SFZ_MAP
    /\ lrp # cur
    /\ (t - lrt) >= DEBOUNCE_SECONDS

\* current_program is set whether or not the write raised.
after_send_always(ok, cur, program) == program

\* current_program after the write and flush of the load command.
after_send(ok, cur, program) ==
    IF ok THEN program ELSE cur

\* msg = midiin.get_message() and the handling of the message.
Poll ==
    /\ pc = "poll"
    /\ \E m \in {<<>>} \cup MessageSamples :
         /\ (m # <<>> /\ IsQualifying(m)) => Len(events) < MaxEvents
         /\ msg' = m
         /\ LET r == after_message(m, last_requested_program,
                                   last_request_time, clock)
            IN  /\ last_requested_program' = r.program
                /\ last_request_time' = r.time
         /\ events' = IF m # <<>> /\ IsQualifying(m)
                      THEN Append(events, [program |-> m[2], time |-> clock,
                                           checked |-> now])
                      ELSE events
    /\ pc' = "check"
    /\ UNCHANGED <<clock, file, midiin_open, midiout_open, midiout_msgs, sfizz,
                   sfizz_arg, default_prog, current_program, now,
                   engine_stdin, attempts, send_failures, last_saved, save_result, config>>

\* A retry after a failed send goes straight to the send.
Check_retry_skips_save ==
    /\ pc = "check"
    /\ now' = clock
    /\ msg' = <<>>
    /\ pc' = IF debounce_due(last_requested_program, current_program, clock,
                             last_request_time)
             THEN IF attempts # <<>> /\ ~attempts[Len(attempts)].ok
                     /\ attempts[Len(attempts)].ev = Len(events)
                  THEN "send" ELSE "save"
             ELSE "sleep"
    /\ UNCHANGED <<clock, file, midiin_open, midiout_open, midiout_msgs, sfizz,
                   sfizz_arg, default_prog, current_program,
                   last_requested_program, last_request_time, engine_stdin,
                   events, attempts, send_failures, last_saved, save_result,
                   config>>

\* now = time.monotonic() and the debounce check.
Check ==
    /\ pc = "check"
    /\ now' = clock
    /\ msg' = <<>>
    /\ pc' = IF debounce_due(last_requested_program, current_program, clock,
                             last_request_time)
             THEN "save" ELSE "sleep"
    /\ UNCHANGED <<clock, file, midiin_open, midiout_open, midiout_msgs, sfizz,
                   sfizz_arg, default_prog, current_program,
                   last_requested_program, last_request_time, engine_stdin,
                   events, attempts, send_failures, last_saved, save_result, config>>

\* A failed save raises out of the loop into the finally block.
Save_propagates ==
    /\ pc = "save"
    /\ \E outcome \in SaveOutcomes :
         /\ file' = save_last_program(file, last_requested_program, outcome)
         /\ last_saved' = IF outcome = "ok" THEN last_requested_program
                          ELSE last_saved
         /\ save_result' = SaveReturn(outcome)
         /\ pc' = IF outcome = "ok" THEN "send" ELSE "close_in"
    /\ UNCHANGED <<clock, midiin_open, midiout_open, midiout_msgs, sfizz,
                   sfizz_arg, default_prog, current_program,
                   last_requested_program, last_request_time, now, msg,
                   engine_stdin, events, attempts, send_failures, config>>

\* program = last_requested_program; save_last_program(program)
Save ==
    /\ pc = "save"
    /\ \E outcome \in SaveOutcomes :
         /\ file' = save_last_program(file, last_requested_program, outcome)
         /\ last_saved' = IF outcome = "ok" THEN last_requested_program
                          ELSE last_saved
         /\ save_result' = SaveReturn(outcome)
    /\ pc' = "send"
    /\ UNCHANGED <<clock, midiin_open, midiout_open, midiout_msgs, sfizz,
                   sfizz_arg, default_prog, current_program,
                   last_requested_program, last_request_time, now, msg,
                   engine_stdin, events, attempts, send_failures, config>>

\* sfizz.stdin.write(cmd); sfizz.stdin.flush(); current_program = program,
\* or the except branch when write or flush raises.
Send ==
    /\ pc = "send"
    /\ \E ok \in BOOLEAN :
         /\ ~ok => send_failures < MaxSendFailures
         /\ engine_stdin' =
              IF ok
              THEN Append(engine_stdin, LoadCommand(SFZ_MAP[last_requested_program]))
              ELSE engine_stdin
         /\ current_program' = after_send(ok, current_program,
                                          last_requested_program)
         /\ attempts' = Append(attempts,
                               [program |-> last_requested_program,
                                ok |-> ok, ev |-> Len(events)])
         /\ send_failures' = IF ok THEN send_failures ELSE send_failures + 1
    /\ pc' = "sleep"
    /\ UNCHANGED <<clock, file, midiin_open, midiout_open, midiout_msgs, sfizz,
                   sfizz_arg, default_prog, last_requested_program,
                   last_request_time, now, events, msg, last_saved, save_result, config>>

\* time.sleep(0.005): returns after at least LOOP_SLEEP ms.
Sleep ==
    /\ pc = "sleep"
    /\ \E k \in 1..MaxSleepTicks :
         /\ k * Tick >= LOOP_SLEEP
         /\ clock + k * Tick <= MaxClock
         /\ clock' = clock + k * Tick
    /\ pc' = "poll"
    /\ UNCHANGED <<file, midiin_open, midiout_open, midiout_msgs, sfizz,
                   sfizz_arg, default_prog, current_program,
                   last_requested_program, last_request_time, now,
                   engine_stdin, events, attempts, send_failures, msg, last_saved, save_result, config>>

(* ---- environment ------------------------------------------------------ *)

\* KeyboardInterrupt: inside the try of the loop it reaches the except
\* clause and the finally block; before that try nothing catches it.
Interrupt ==
    /\ pc \in StartupPcs \cup LoopPcs
    /\ pc' = IF pc \in LoopPcs THEN "close_in" ELSE "aborted"
    /\ UNCHANGED <<clock, file, midiin_open, midiout_open, midiout_msgs, sfizz,
                   sfizz_arg, default_prog, current_program,
                   last_requested_program, last_request_time, now,
                   engine_stdin, events, attempts, send_failures, msg, last_saved, save_result, config>>

(* ---- the finally block of main() -------------------------------------- *)

\* midiin.close_port()
CloseIn ==
    /\ pc = "close_in"
    /\ midiin_open' = FALSE
    /\ pc' = "close_out"
    /\ UNCHANGED <<clock, file, midiout_open, midiout_msgs, sfizz, sfizz_arg,
                   default_prog, current_program, last_requested_program,
                   last_request_time, now, engine_stdin, events, attempts,
                   send_failures, msg, last_saved, save_result, config>>

\* The output port is left open.
CloseOut_leaves_open ==
    /\ pc = "close_out"
    /\ pc' = "stop_sfizz"
    /\ UNCHANGED <<clock, file, midiin_open, midiout_open, midiout_msgs, sfizz,
                   sfizz_arg, default_prog, current_program,
                   last_requested_program, last_request_time, now,
                   engine_stdin, events, attempts, send_failures, msg,
                   last_saved, save_result, config>>

\* midiout.close_port()
CloseOut ==
    /\ pc = "close_out"
    /\ midiout_open' = FALSE
    /\ pc' = "stop_sfizz"
    /\ UNCHANGED <<clock, file, midiin_open, midiout_msgs, sfizz, sfizz_arg,
                   default_prog, current_program, last_requested_program,
                   last_request_time, now, engine_stdin, events, attempts,
                   send_failures, msg, last_saved, save_result, config>>

\* if sfizz and sfizz.poll() is None: terminate(), wait(timeout=3), kill();
\* poll() is not None when the process has exited by itself.
StopSfizz ==
    /\ pc = "stop_sfizz"
    /\ sfizz' \in {"exited", "terminated", "killed"}
    /\ pc' = "done"
    /\ UNCHANGED <<clock, file, midiin_open, midiout_open, midiout_msgs,
                   sfizz_arg, default_prog, current_program,
                   last_requested_program, last_request_time, now,
                   engine_stdin, events, attempts, send_failures, msg, last_saved, save_result, config>>

Next ==
    \/ OpenPorts
    \/ LoadLast
    \/ ForceInitial
    \/ StartSfizz
    \/ JackAutoconnect
    \/ InitDebounce
    \/ Poll
    \/ Check
    \/ Save
    \/ Send
    \/ Sleep
    \/ Interrupt
    \/ CloseIn
    \/ CloseOut
    \/ StopSfizz

Spec == Init /\ [][Next]_vars

TypeOK ==
    /\ pc \in StartupPcs \cup LoopPcs
              \cup {"exit1", "aborted", "crashed", "close_in", "close_out",
                    "stop_sfizz", "done"}
    /\ clock \in 0..MaxClock
    /\ sfizz \in {"none", "running", "exited", "terminated", "killed"}
    /\ Len(events) <= MaxEvents
    /\ msg \in {<<>>} \cup MessageSamples
    /\ send_failures \in 0..MaxSendFailures

(* ---- startup alone, from every sampled state of LAST_PROG_FILE -------- *)

InitFiles ==
    /\ pc = "open_ports"
    /\ clock = 0
    /\ file \in FileSamples
    /\ midiin_open = FALSE
    /\ midiout_open = FALSE
    /\ midiout_msgs = <<>>
    /\ sfizz = "none"
    /\ sfizz_arg = ""
    /\ default_prog = None
    /\ current_program = None
    /\ last_requested_program = None
    /\ last_request_time = None
    /\ now = None
    /\ msg = <<>>
    /\ engine_stdin = <<>>
    /\ events = <<>>
    /\ attempts = <<>>
    /\ last_saved = None
    /\ save_result = None
    /\ send_failures = 0
    /\ config = ShippedConfig

NextStartup ==
    \/ OpenPorts
    \/ LoadLast
    \/ ForceInitial
    \/ StartSfizz
    \/ JackAutoconnect
    \/ InitDebounce
    \/ Interrupt

SpecStartup == InitFiles /\ [][NextStartup]_vars

(* ---- startup alone, from every sampled edit of the USER CONFIG -------- *)

InitConfig ==
    /\ pc = "open_ports"
    /\ clock = 0
    /\ file \in FileSamples
    /\ midiin_open = FALSE
    /\ midiout_open = FALSE
    /\ midiout_msgs = <<>>
    /\ sfizz = "none"
    /\ sfizz_arg = ""
    /\ default_prog = None
    /\ current_program = None
    /\ last_requested_program = None
    /\ last_request_time = None
    /\ now = None
    /\ msg = <<>>
    /\ engine_stdin = <<>>
    /\ events = <<>>
    /\ attempts = <<>>
    /\ last_saved = None
    /\ save_result = None
    /\ send_failures = 0
    /\ config \in ConfigSamples

SpecConfig == InitConfig /\ [][NextStartup]_vars

(* ---- properties ------------------------------------------------------- *)

\* The program selected by the i-th qualifying event.
EventProgram(i) == events[i].program

\* The time from the i-th qualifying event to the next one.
Gap(i) == events[i + 1].time - events[i].time

\* current_program when the a-th commit attempt was made: the program of
\* the last successful attempt before it, or the startup program.
RECURSIVE CurrentBefore(_)
CurrentBefore(a) ==
    IF a = 1 THEN default_prog
    ELSE IF attempts[a - 1].ok THEN attempts[a - 1].program
    ELSE CurrentBefore(a - 1)

\* current_program when the i-th event was consumed.
CurrentAtEvent(i) ==
    LET before == {a \in 1..Len(attempts) : attempts[a].ev < i}
    IN  IF before = {} THEN default_prog
        ELSE LET last == CHOOSE a \in before : \A b \in before : b <= a
             IN  IF attempts[last].ok THEN attempts[last].program
                 ELSE CurrentBefore(last)

\* The commit attempts made while the i-th event was the latest one.
AttemptsFor(i) == {a \in 1..Len(attempts) : attempts[a].ev = i}

\* C1: coalescing. Every commit attempt is for the program of the latest
\* qualifying event, and an event that is followed by another one less
\* than DEBOUNCE_SECONDS later is never the one a load command is sent for:
\* of a burst of events, only the last one's program is committed.
C1_Coalescing ==
    \A a \in 1..Len(attempts) :
        LET i == attempts[a].ev
        IN  /\ i >= 1
            /\ attempts[a].program = EventProgram(i)
            /\ i < Len(events) => Gap(i) >= DEBOUNCE_SECONDS

\* A burst of three events, the first for a loadable program other than
\* the current one, and the load command sent for the third.
C1_Witness ==
    /\ Len(events) = 3
    /\ Gap(1) < DEBOUNCE_SECONDS
    /\ Gap(2) < DEBOUNCE_SECONDS
    /\ EventProgram(1) \in DOMAIN SFZ_MAP
    /\ EventProgram(1) # default_prog
    /\ EventProgram(2) # EventProgram(3)
    /\ \E a \in 1..Len(attempts) : attempts[a].ev = 3 /\ attempts[a].ok
    /\ engine_stdin = <<LoadCommand(SFZ_MAP[EventProgram(3)])>>

\* C2: a program that is not a key of SFZ_MAP is never sent to the engine:
\* every command written to sfizz is the load command of some key's path,
\* every commit attempt is for a key, and the commit branch is only ever
\* entered with a key pending.
C2_OnlyMappedProgramsSent ==
    /\ \A k \in 1..Len(engine_stdin) :
          \E p \in DOMAIN SFZ_MAP :
              engine_stdin[k] = <<"load_instrument ", SFZ_MAP[p], "\n">>
    /\ \A a \in 1..Len(attempts) : attempts[a].program \in DOMAIN SFZ_MAP
    /\ pc \in {"save", "send"} => last_requested_program \in DOMAIN SFZ_MAP

\* An unmapped program has been pending for two debounce windows and the
\* debounce check has just run.
C2_Witness ==
    /\ pc = "sleep"
    /\ events # <<>>
    /\ last_requested_program \notin DOMAIN SFZ_MAP
    /\ last_requested_program # current_program
    /\ now - last_request_time >= 2 * DEBOUNCE_SECONDS

\* C3: trailing window. last_request_time is the time of the latest
\* qualifying event, whatever program it carried, and the commit branch is
\* only entered when at least DEBOUNCE_SECONDS have passed since that
\* event.
C3_TrailingWindow ==
    /\ events # <<>> =>
          /\ last_request_time = events[Len(events)].time
          /\ last_requested_program = events[Len(events)].program
    /\ (pc \in {"save", "send"} /\ events # <<>>) =>
          clock - events[Len(events)].time >= DEBOUNCE_SECONDS

\* An event repeats the pending program within the window, and the commit
\* is made a full window after the repeat.
C3_Witness ==
    /\ Len(events) = 2
    /\ EventProgram(1) = EventProgram(2)
    /\ Gap(1) > 0
    /\ Gap(1) < DEBOUNCE_SECONDS
    /\ pc = "save"
    /\ clock - events[2].time >= DEBOUNCE_SECONDS

\* C4 as claimed: when consecutive events are at least DEBOUNCE_SECONDS
\* apart and no send has failed, every event that has been followed by
\* another one, selects a key of SFZ_MAP and differs from current_program
\* has had exactly one commit attempt.
C4_SpacedEventsCommitOnce ==
    (/\ send_failures = 0
     /\ \A j \in 1..(Len(events) - 1) : Gap(j) >= DEBOUNCE_SECONDS)
    => \A i \in 1..(Len(events) - 1) :
          (EventProgram(i) \in DOMAIN SFZ_MAP /\ EventProgram(i) # CurrentAtEvent(i))
          => Cardinality(AttemptsFor(i)) = 1

\* A debounce check ran at least DEBOUNCE_SECONDS after the j-th event and
\* before the next event was consumed.
CheckedBeforeNext(j) ==
    /\ events[j + 1].checked # None
    /\ events[j + 1].checked - events[j].time >= DEBOUNCE_SECONDS

\* C4 as amended: when, before each next event is consumed, the debounce
\* check has run at least DEBOUNCE_SECONDS after the previous event, and no
\* send has failed, every event that selects a key of SFZ_MAP and differs
\* from current_program has exactly one commit attempt: once it has been
\* followed by another event, or once an iteration whose check ran at
\* least DEBOUNCE_SECONDS after it has completed.
C4_CheckedEventsCommitOnce ==
    (/\ send_failures = 0
     /\ \A j \in 1..(Len(events) - 1) : CheckedBeforeNext(j))
    => \A i \in 1..Len(events) :
          (/\ EventProgram(i) \in DOMAIN SFZ_MAP
           /\ EventProgram(i) # CurrentAtEvent(i)
           /\ \/ i < Len(events)
              \/ /\ pc \in {"sleep", "poll", "check"}
                 /\ now - events[i].time >= DEBOUNCE_SECONDS)
          => /\ Cardinality(AttemptsFor(i)) = 1
             /\ \A a \in AttemptsFor(i) : attempts[a].ok

\* Two events, the second consumed after the check that committed the
\* first, each committed once.
C4_Witness ==
    /\ Len(events) = 2
    /\ send_failures = 0
    /\ CheckedBeforeNext(1)
    /\ EventProgram(1) \in DOMAIN SFZ_MAP
    /\ EventProgram(1) # default_prog
    /\ EventProgram(2) \in DOMAIN SFZ_MAP
    /\ EventProgram(2) # EventProgram(1)
    /\ Cardinality(AttemptsFor(1)) = 1
    /\ Cardinality(AttemptsFor(2)) = 1
    /\ pc = "sleep"

\* C5: idempotence. No commit attempt is ever made for the program that is
\* current_program at that moment (the program of the last successful
\* attempt, or the startup program), so the engine never receives the same
\* load command twice in a row.
C5_Idempotent ==
    /\ \A a \in 1..Len(attempts) : attempts[a].program # CurrentBefore(a)
    /\ \A k \in 1..(Len(engine_stdin) - 1) : engine_stdin[k] # engine_stdin[k + 1]

\* A program was committed, a later event selected it again, and a
\* debounce check ran a full window after that event.
C5_Witness ==
    /\ pc = "sleep"
    /\ Len(attempts) = 1
    /\ attempts[1].ok
    /\ Len(events) > attempts[1].ev
    /\ EventProgram(Len(events)) = attempts[1].program
    /\ current_program = attempts[1].program
    /\ now - last_request_time >= DEBOUNCE_SECONDS

\* C6: send-failure retry. A failed send leaves current_program unchanged
\* and a successful one sets it to the pending program; the debounce check
\* that follows a failed send with no new qualifying event in between
\* enters the commit branch again for the same program; after a successful
\* send no further attempt is made for the same event.
C6_SendFailureRetry ==
    /\ [](\A a \in 1..Len(attempts) : \A b \in (a + 1)..Len(attempts) :
             attempts[a].ok => attempts[b].ev > attempts[a].ev)
    /\ [][(pc = "send" /\ pc' = "sleep") =>
             IF attempts'[Len(attempts')].ok
             THEN current_program' = last_requested_program
             ELSE current_program' = current_program]_vars
    /\ [][(/\ pc = "check"
           /\ pc' \in {"save", "sleep"}
           /\ attempts # <<>>
           /\ ~attempts[Len(attempts)].ok
           /\ attempts[Len(attempts)].ev = Len(events))
          => (/\ pc' = "save"
              /\ last_requested_program = attempts[Len(attempts)].program)]_vars

\* Two failed sends and a successful one for the same event, and a later
\* iteration about to run its check.
C6_Witness ==
    /\ Len(attempts) = 3
    /\ ~attempts[1].ok
    /\ ~attempts[2].ok
    /\ attempts[3].ok
    /\ attempts[1].ev = attempts[3].ev
    /\ current_program = attempts[3].program
    /\ Len(engine_stdin) = 1
    /\ pc = "check"

\* C7: between commits, a persisted value written by the router is
\* current_program.
C7_PersistedIsLoaded ==
    (/\ pc \in {"poll", "check", "sleep"}
     /\ last_saved # None
     /\ file = TextFile(Str(last_saved)))
    => ParseInt(file.text).val = current_program

\* C8: the program resolved at startup is the persisted value when the
\* file is there, readable, parses as an integer and is a key of SFZ_MAP,
\* and the default program otherwise; the step always yields a program;
\* what save_last_program writes for a key is read back as that key.
C8_StartupResolution ==
    /\ default_prog # None =>
          default_prog =
              IF /\ file.kind = "text"
                 /\ ParseInt(file.text).ok
                 /\ ParseInt(file.text).val \in DOMAIN SFZ_MAP
              THEN ParseInt(file.text).val
              ELSE DEFAULT_PROG
    /\ pc \in {"force", "start_sfizz", "jack", "init", "poll"} => default_prog # None
    /\ \A p \in DOMAIN SFZ_MAP :
          load_last_program(save_last_program(file, p, "ok")) = p

\* The file holds " 12\n" and program 12 has been resolved.
C8_Witness ==
    /\ pc = "force"
    /\ file = TextFile(<<" ", "1", "2", "\n">>)
    /\ default_prog = 12

C10_NonQualifyingInert ==
    /\ [][(/\ pc = "poll"
           /\ pc' = "check"
           /\ msg' # <<>>
           /\ msg'[1] # 192 + (COMMON_CHANNEL - 1))
          => UNCHANGED <<last_requested_program, last_request_time,
                         current_program, file, events>>]_vars
    /\ [](pc \in {"save", "send"} =>
             /\ events # <<>>
             /\ last_requested_program = events[Len(events)].program)

\* A Program Change for 12 on channel 2 has been consumed and 12 was never
\* requested on the common channel.
C10_Witness ==
    /\ pc = "check"
    /\ msg = <<193, 12>>
    /\ last_requested_program # 12
    /\ current_program # 12
    /\ \A i \in 1..Len(events) : EventProgram(i) # 12

TeardownPcs == {"close_in", "close_out", "stop_sfizz", "done"}

\* The latest commit attempt.
LastAttempt == attempts[Len(attempts)]

\* C11: every program handed to save_last_program is a key of SFZ_MAP:
\* the save step is only reached with a key pending, the last program
\* saved is a key, and a value the router has left in the file is a key.
C11_SavedValuesAreKeys ==
    /\ pc = "save" => last_requested_program \in DOMAIN SFZ_MAP
    /\ last_saved # None => last_saved \in DOMAIN SFZ_MAP
    /\ (last_saved # None /\ file.kind = "text" /\ file.text # <<>>) =>
          /\ ParseInt(file.text).ok
          /\ ParseInt(file.text).val \in DOMAIN SFZ_MAP

\* Program 12 has just been written to the file.
C11_Witness ==
    /\ pc = "send"
    /\ last_saved = 12
    /\ file = TextFile(<<"1", "2">>)

\* C12: a failed save does not block the commit. A save step that leaves
\* the file without the pending program still goes on to the send with
\* the debounce state untouched, and a send that succeeds after it writes
\* the load command, sets current_program and goes on to the sleep.
C12_SaveFailureDoesNotBlock ==
    /\ [][(pc = "save" /\ file' # TextFile(Str(last_requested_program))
           /\ (file' # file \/ pc' = "send"))
          => (/\ pc' = "send"
              /\ UNCHANGED <<current_program, last_requested_program,
                             last_request_time, engine_stdin>>)]_vars
    /\ [][(/\ pc = "send"
           /\ file # TextFile(Str(last_requested_program))
           /\ Len(attempts') > Len(attempts)
           /\ attempts'[Len(attempts')].ok)
          => (/\ engine_stdin' =
                   Append(engine_stdin,
                          <<"load_instrument ", SFZ_MAP[last_requested_program], "\n">>)
              /\ current_program' = last_requested_program
              /\ pc' = "sleep")]_vars

\* A program has been committed although no save of it ever succeeded.
C12_Witness ==
    /\ pc = "sleep"
    /\ attempts # <<>>
    /\ LastAttempt.ok
    /\ current_program = LastAttempt.program
    /\ last_saved # current_program
    /\ file # TextFile(Str(current_program))
    /\ engine_stdin[Len(engine_stdin)] = LoadCommand(SFZ_MAP[current_program])

\* C13: what save_last_program returns tells its caller whether the write
\* succeeded: after the call, the result is that of a successful write
\* exactly when the file holds the program.
C13_SaveReportsFailure ==
    pc = "send" =>
        ((save_result = SaveReturn("ok"))
         <=> (file = TextFile(Str(last_requested_program))))

\* C14: an interrupt never ends the loop between the save of the pending
\* program and the attempt to send it.
C14_CommitAtomic ==
    [][(/\ pc = "send"
        /\ last_saved = last_requested_program
        /\ file = TextFile(Str(last_requested_program)))
       => pc' # "close_in"]_vars

\* C15: once the interrupt has been received nothing is sent to the
\* engine, nothing is saved and current_program stays as it was, and the
\* finally block ends with both ports closed.
C15_NoCommitOnCancel ==
    /\ [][pc' \in TeardownPcs =>
             UNCHANGED <<engine_stdin, file, current_program, attempts,
                         last_saved>>]_vars
    /\ [](pc = "done" => (~midiin_open /\ ~midiout_open))

\* The run has ended with a loadable program pending for a full window
\* and never committed.
C15_Witness ==
    /\ pc = "done"
    /\ last_requested_program \in DOMAIN SFZ_MAP
    /\ last_requested_program # current_program
    /\ clock - last_request_time >= DEBOUNCE_SECONDS
    /\ attempts = <<>>
    /\ engine_stdin = <<>>
    /\ last_saved = None
    /\ ~midiin_open
    /\ ~midiout_open

\* C16 as claimed: with an empty SFZ_MAP, or with the default program not
\* a key of it, startup never starts sfizz and never enters the loop.
C16_ConfigErrorsFatal ==
    (DOMAIN SFZ_MAP = {} \/ DEFAULT_PROG \notin DOMAIN SFZ_MAP)
    => (/\ pc \notin LoopPcs
        /\ sfizz = "none"
        /\ events = <<>>)

\* C16 as amended: with an empty SFZ_MAP startup ends in start_sfizz,
\* after the message to the controller, with sfizz not started and the
\* loop not entered; it ends there for no other configuration; with a
\* non-empty SFZ_MAP and a startup program that is not a key, sfizz is
\* started with the first entry.
C16_EmptyMapFatal ==
    /\ DOMAIN SFZ_MAP = {} =>
          /\ pc \notin {"jack", "init"} \cup LoopPcs \cup TeardownPcs
          /\ sfizz = "none"
          /\ events = <<>>
          /\ msg = <<>>
    /\ pc = "crashed" =>
          /\ DOMAIN SFZ_MAP = {}
          /\ midiout_msgs # <<>>
    /\ (/\ DOMAIN SFZ_MAP # {}
        /\ sfizz # "none"
        /\ default_prog \notin DOMAIN SFZ_MAP)
       => sfizz_arg = SFZ_MAP[SFZ_ORDER[1]]

\* Startup with an empty SFZ_MAP has ended in start_sfizz.
C16_Witness ==
    /\ pc = "crashed"
    /\ DOMAIN SFZ_MAP = {}
    /\ default_prog = DEFAULT_PROG
    /\ midiout_msgs = << <<192, DEFAULT_PROG>> >>
    /\ sfizz = "none"

\* The successful commit attempts for the latest event.
SettledCommits ==
    {a \in AttemptsFor(Len(events)) : attempts[a].ok}

C18_CommitOrder ==
    /\ [][(pc' = "send" /\ pc # "send") => pc = "save"]_vars
    /\ [][Len(attempts') > Len(attempts) => (pc = "send" /\ pc' = "sleep")]_vars
    /\ [][engine_stdin' # engine_stdin =>
             (/\ pc = "send"
              /\ engine_stdin' =
                   Append(engine_stdin,
                          <<"load_instrument ", SFZ_MAP[last_requested_program], "\n">>)
              /\ attempts'[Len(attempts')].ok
              /\ current_program' = last_requested_program)]_vars
    /\ [][(pc \in LoopPcs /\ current_program' # current_program) =>
             engine_stdin' # engine_stdin]_vars

\* The retry of a failed send has saved the program again and is about to
\* send.
C18_Witness ==
    /\ pc = "send"
    /\ attempts # <<>>
    /\ ~LastAttempt.ok
    /\ LastAttempt.ev = Len(events)
    /\ LastAttempt.program = last_requested_program
    /\ file = TextFile(Str(last_requested_program))

\* The instrument sfizz last loaded.
EngineLoaded ==
    IF engine_stdin = <<>> THEN sfizz_arg
    ELSE engine_stdin[Len(engine_stdin)][2]

\* C19: from the start of sfizz on, current_program is a key of SFZ_MAP
\* and the instrument sfizz last loaded is the path of current_program.
C19_EngineStateAgreement ==
    (sfizz # "none" /\ current_program # None)
    => (/\ current_program \in DOMAIN SFZ_MAP
        /\ EngineLoaded = SFZ_MAP[current_program])

\* C20: a run that an interrupt has ended after sfizz was started has
\* closed both ports and stopped sfizz.
C20_TeardownOnInterrupt ==
    (pc \in {"aborted", "done"} /\ sfizz # "none")
    => (/\ sfizz # "running"
        /\ ~midiin_open
        /\ ~midiout_open)

====
